---- MODULE Spec2Model ----
(***************************************************************************)
(* Model of ratlib/api/http.py: the URL joiner urljoin() and the API call  *)
(* wrapper call() with its exception hierarchy.                            *)
(*                                                                         *)
(* Python values are modelled as follows.  A str is a sequence of one-     *)
(* character strings.  A value that may be a str, a list of str or None is *)
(* a record [t, s, l] (Str, List, None below).  The HTTP client library    *)
(* (requests) is the environment: it answers a request with a response or  *)
(* raises one of its exceptions, chosen nondeterministically.  It is taken  *)
(* to offer what call() asks of it: the helpers GET, PUT and POST and the   *)
(* generic request(), the lookup status_codes[code][0] of a reason phrase,  *)
(* and responses with status_code, raise_for_status() and json().          *)
(***************************************************************************)
EXTENDS Integers, Sequences, FiniteSets, TLC

\* ------------------------------------------------------------------ bounds
MaxLen == 2
MaxParts == 3
MaxUriParts == 2

\* ------------------------------------------------------------ Python values
Chars == {"a", "/"}

Str(s) == [t |-> "str", s |-> s, l |-> <<>>]

List(l) == [t |-> "list", s |-> <<>>, l |-> l]

None == [t |-> "none", s |-> <<>>, l |-> <<>>]

\* bool(x): None, '' and [] are falsy
Truthy(x) == IF x.t = "str" THEN x.s # <<>> ELSE IF x.t = "list" THEN x.l # <<>> ELSE FALSE

\* x[-1] == '/' for a non-empty str or list of str
LastIsSlash(x) == IF x.t = "str" THEN x.s[Len(x.s)] = "/" ELSE x.l[Len(x.l)] = <<"/">>

\* x[0] == '/'
FirstIsSlash(x) == IF x.t = "str" THEN x.s[1] = "/" ELSE x.l[1] = <<"/">>

\* x[1:]
Rest(x) == IF x.t = "str" THEN Str(Tail(x.s)) ELSE List(Tail(x.l))

\* --------------------------------------------------------------- urljoin
\* The items _gen(parts) yields, from position i on, with the loop variable prev.
RECURSIVE GenFrom(_, _, _)
GenFrom(parts, i, prev) ==
    IF i > Len(parts) THEN <<>>
    ELSE LET part == parts[i] IN
         IF ~Truthy(part) THEN GenFrom(parts, i + 1, prev)
         ELSE IF ~Truthy(prev) THEN <<part>> \o GenFrom(parts, i + 1, part)
         ELSE IF LastIsSlash(prev) # FirstIsSlash(part)
              THEN <<part>> \o GenFrom(parts, i + 1, part)
         ELSE IF FirstIsSlash(part)
              THEN <<Rest(part)>> \o GenFrom(parts, i + 1, Rest(part))
         ELSE <<Str(<<"/">>), part>> \o GenFrom(parts, i + 1, part)

Gen(parts) == GenFrom(parts, 1, None)

\* "".join(items): TypeError unless every item is a str
RECURSIVE Concat(_)
Concat(items) == IF items = <<>> THEN <<>> ELSE Head(items).s \o Concat(Tail(items))

StrJoin(items) ==
    IF \A k \in 1..Len(items) : items[k].t = "str"
    THEN [ok |-> TRUE, val |-> Concat(items), exc |-> "none"]
    ELSE [ok |-> FALSE, val |-> <<>>, exc |-> "TypeError"]

\* urljoin(*parts); parts is the tuple of positional arguments
urljoin(parts) == StrJoin(Gen(parts))

\* ------------------------------------------------------ error hierarchy
\* Python scalar values used for an error's code and details
IntV(n) == [t |-> "int", i |-> n, s |-> ""]

TextV(x) == [t |-> "str", i |-> 0, s |-> x]

NoneV == [t |-> "none", i |-> 0, s |-> ""]

\* class -> base class: the classes of http.py, the transport's exceptions and
\* the built-in exceptions the code can raise
Parent ==
    [c \in {"APIError", "BadResponseError", "BadJSONError", "UnsupportedMethodError",
            "HTTPError", "exc.RequestException", "exc.HTTPError", "exc.ConnectionError",
            "exc.Timeout", "ValueError", "TypeError", "AttributeError", "IndexError",
            "KeyError", "Exception"} |->
        CASE c = "BadResponseError" -> "APIError"
          [] c = "BadJSONError" -> "BadResponseError"
          [] c = "UnsupportedMethodError" -> "APIError"
          [] c = "HTTPError" -> "APIError"
          [] c \in {"exc.HTTPError", "exc.ConnectionError", "exc.Timeout"}
                -> "exc.RequestException"
          [] OTHER -> "Exception"]

\* isinstance(an instance of cls, base)
RECURSIVE IsA(_, _)
IsA(cls, base) ==
    IF cls = base THEN TRUE
    ELSE IF cls = "Exception" THEN FALSE
    ELSE IsA(Parent[cls], base)

\* a decoded JSON value, by the features call() reads: its type, its keys (a
\* mapping) or its items (a list), and the value under 'errors'
NoErrs == [t |-> "absent", n |-> 0, first |-> [t |-> "absent", code |-> NoneV, details |-> NoneV]]

ErrList(first) == [t |-> "list", n |-> 1, first |-> first]

ErrEntry(code, details) == [t |-> "map", code |-> code, details |-> details]

JMap(keys, errs) == [t |-> "map", keys |-> keys, items |-> {}, errs |-> errs]

JList(items) == [t |-> "list", keys |-> {}, items |-> items, errs |-> NoErrs]

JScalar(t) == [t |-> t, keys |-> {}, items |-> {}, errs |-> NoErrs]

NoJson == JScalar("unset")

\* an exception in flight: its class and, for a status exception, the status
\* of the response it carries
Exc(cls, status) == [cls |-> cls, status |-> status]

NoExc == Exc("none", 0)

\* an error escaping call(): class, fields set by __init__, the exception it
\* was raised from, and the source line of the raise
Error(cls, code, details, json, cause, at) ==
    [cls |-> cls, code |-> code, details |-> details, json |-> json, cause |-> cause, at |-> at]

NoError == Error("none", NoneV, NoneV, NoJson, NoExc, 0)

APIError(code, details, json, cause, at) == Error("APIError", code, details, json, cause, at)

BadResponseError(code, details, json, cause, at) ==
    Error("BadResponseError", code, details, json, cause, at)

BadJSONError_WrongCode(cause, at) ==
    Error("BadJSONError", TextV("9999"), TextV("API didn't return valid JSON."), NoJson, cause, at)

BadJSONError(cause, at) ==
    Error("BadJSONError", TextV("2608"), TextV("API didn't return valid JSON."), NoJson, cause, at)

HTTPError(code, details, cause, at) == Error("HTTPError", code, details, NoJson, cause, at)

\* an exception that is no APIError and escapes as it is
Builtin(cls, at) == Error(cls, NoneV, NoneV, NoJson, NoExc, at)

\* ---------------------------------------------------------- the transport
GET == <<"G", "E", "T">>

PUT == <<"P", "U", "T">>

POST == <<"P", "O", "S", "T">>

\* request_methods: method name -> the transport helper of that name
request_methods == [m \in {GET, PUT, POST} |-> m]

LowerLetters == <<"a", "b", "c", "d", "e", "f", "g", "h", "i", "j", "k", "l", "m",
                  "n", "o", "p", "q", "r", "s", "t", "u", "v", "w", "x", "y", "z">>

UpperLetters == <<"A", "B", "C", "D", "E", "F", "G", "H", "I", "J", "K", "L", "M",
                  "N", "O", "P", "Q", "R", "S", "T", "U", "V", "W", "X", "Y", "Z">>

UpperChar(c) ==
    IF \E k \in 1..Len(LowerLetters) : LowerLetters[k] = c
    THEN UpperLetters[CHOOSE k \in 1..Len(LowerLetters) : LowerLetters[k] = c]
    ELSE c

\* str.upper()
Upper(m) == [k \in 1..Len(m) |-> UpperChar(m[k])]

\* the request the transport is asked to send: helper(uri, json=data) for a
\* known method, request(method.upper(), uri, json=data) otherwise
Request(m, u, d) ==
    IF m \in DOMAIN request_methods
    THEN [via |-> request_methods[m], verb |-> request_methods[m], uri |-> u,
          json |-> d, options |-> {}]
    ELSE [via |-> <<"r", "e", "q", "u", "e", "s", "t">>, verb |-> Upper(m), uri |-> u,
          json |-> d, options |-> {}]

\* requests.status_codes[code][0]: the reason phrase of a status code
Reason(code) ==
    CASE code = 200 -> "OK"
      [] code = 201 -> "Created"
      [] code = 404 -> "Not Found"
      [] code = 500 -> "Internal Server Error"

\* response.raise_for_status() raises for a 4xx or 5xx status
RaisesForStatus(code) == code >= 400 /\ code < 600

Response(code, valid, j) == [status_code |-> code, valid |-> valid, j |-> j]

NoResponse == Response(0, FALSE, NoJson)

StatusCodes == {200, 201, 404, 500}

JsonBodies ==
    { JMap({"data"}, NoErrs),
      JMap({"data", "meta"}, NoErrs),
      JMap({}, NoErrs),
      JMap({"meta"}, NoErrs),
      JMap({"errors"}, ErrList(ErrEntry(TextV("X"), TextV("Y")))),
      JMap({"errors"}, ErrList(ErrEntry(NoneV, TextV("Y")))),
      JMap({"errors"}, ErrList(ErrEntry(NoneV, NoneV))),
      JMap({"data", "errors"}, ErrList(ErrEntry(TextV("X"), TextV("Y")))),
      JMap({"errors"}, [t |-> "list", n |-> 0, first |-> NoErrs.first]),
      JMap({"errors"}, ErrList([t |-> "num", code |-> NoneV, details |-> NoneV])),
      JMap({"errors"}, [t |-> "num", n |-> 0, first |-> NoErrs.first]),
      JMap({"errors"}, [t |-> "map", n |-> 0, first |-> NoErrs.first]),
      JList({}),
      JList({"data"}),
      JList({"errors"}),
      JScalar("num"),
      JScalar("null") }

\* what the transport can answer: a response with any status and body
Responses ==
    {Response(c, TRUE, j) : c \in StatusCodes, j \in JsonBodies}
        \cup {Response(c, FALSE, NoJson) : c \in StatusCodes}

\* what the transport can raise instead of answering
TransportFailures == {Exc("exc.ConnectionError", 0), Exc("exc.Timeout", 0)}

\* ------------------------------------------------------------------ state
VARIABLES jpc, jparts, joined,
          pc, method, uri, data, statuses, kwargs,
          ruri, body, sent, response, pending, validated, json, result, raised

jvars == <<jpc, jparts, joined>>

inputs == <<method, uri, data, statuses, kwargs>>

cvars == <<pc, method, uri, data, statuses, kwargs,
           ruri, body, sent, response, pending, validated, json, result, raised>>

vars == <<jvars, cvars>>

Strings(n) == UNION {[1..k -> Chars] : k \in 0..n}

Fragments == Strings(MaxLen)

FragmentSeqs == UNION {[1..k -> Fragments] : k \in 0..MaxParts}

StrArgs(fs) == [k \in 1..Len(fs) |-> Str(fs[k])]

\* the arguments of a call(): the method in several letter cases, a URI that
\* is a str or a list of fragments, a body, a status set and transport options
Methods ==
    {GET, PUT, POST, <<"g", "e", "t">>, <<"P", "o", "s", "t">>,
     <<"D", "E", "L", "E", "T", "E">>, <<"p", "a", "t", "c", "h">>}

UriFragments == {<<>>, <<"a">>, <<"a", "/">>, <<"/">>}

Uris ==
    {Str(f) : f \in UriFragments}
        \cup {List(l) : l \in UNION {[1..k -> UriFragments] : k \in 0..MaxUriParts}}

DataValues == {"None", "{}", "{k: v}"}

NoStatuses == [given |-> FALSE, set |-> {}]

StatusSets ==
    {NoStatuses} \cup {[given |-> TRUE, set |-> S] : S \in {{}, {200, 201}, {404}}}

KwargValues == {{}, {"timeout"}}

\* the state before call() is entered
CallIdle ==
    /\ ruri = <<>>
    /\ body = "{}"
    /\ sent = <<>>
    /\ response = NoResponse
    /\ pending = NoExc
    /\ validated = FALSE
    /\ json = NoJson
    /\ result = NoJson
    /\ raised = NoError

InitJoin ==
    /\ jpc = "args"
    /\ jparts \in FragmentSeqs
    /\ joined = [ok |-> TRUE, val |-> <<>>, exc |-> "none"]
    /\ pc = "idle"
    /\ method = GET
    /\ uri = Str(<<>>)
    /\ data = "None"
    /\ statuses = NoStatuses
    /\ kwargs = {}
    /\ CallIdle

\* a call urljoin(f1, ..., fn) with string fragments
CallUrljoin ==
    /\ jpc = "args"
    /\ joined' = urljoin(StrArgs(jparts))
    /\ jpc' = "done"
    /\ UNCHANGED <<jparts, cvars>>

NextJoin == CallUrljoin

SpecJoin == InitJoin /\ [][NextJoin]_vars

\* ------------------------------------------------------------------ call
Init ==
    /\ jpc = "idle"
    /\ jparts = <<>>
    /\ joined = [ok |-> TRUE, val |-> <<>>, exc |-> "none"]
    /\ pc = "call"
    /\ method \in Methods
    /\ uri \in Uris
    /\ data \in DataValues
    /\ statuses \in StatusSets
    /\ kwargs \in KwargValues
    /\ CallIdle

\* data or {}
DataOrEmpty(d) == IF d \in {"None", "{}"} THEN "{}" ELSE d

\* not statuses
NotStatuses(st) == ~st.given \/ st.set = {}

\* lines 91-93: a uri that is no str goes through urljoin(uri); data defaults
Resolve ==
    /\ pc = "call"
    /\ LET r == IF uri.t # "str" THEN urljoin(<<uri>>)
                ELSE [ok |-> TRUE, val |-> uri.s, exc |-> "none"]
       IN IF r.ok
          THEN /\ ruri' = r.val
               /\ body' = DataOrEmpty(data)
               /\ pc' = "try"
               /\ UNCHANGED raised
          ELSE /\ raised' = Builtin(r.exc, 92)
               /\ pc' = "raised"
               /\ UNCHANGED <<ruri, body>>
    /\ UNCHANGED <<jvars, inputs, sent, response, pending, validated, json, result>>

\* lines 96-99: the request is handed to the transport, which answers
DispatchAnswered ==
    /\ pc = "try"
    /\ sent' = Append(sent, Request(method, ruri, body))
    /\ \E r \in Responses : response' = r
    /\ pc' = "status"
    /\ UNCHANGED <<jvars, inputs, ruri, body, pending, validated, json, result, raised>>

\* lines 96-99: the request is handed to the transport, which raises
DispatchFailed ==
    /\ pc = "try"
    /\ sent' = Append(sent, Request(method, ruri, body))
    /\ \E ex \in TransportFailures : pending' = ex
    /\ pc' = "except"
    /\ UNCHANGED <<jvars, inputs, ruri, body, response, validated, json, result, raised>>

\* lines 100-103: the outcome of status validation: "pass", or the exception
\* raised inside the try block.  Line 103 reads response.status, an attribute
\* a response does not have, before HTTPError is constructed.
StatusCheck(st, resp) ==
    IF NotStatuses(st)
    THEN IF RaisesForStatus(resp.status_code)
         THEN Exc("exc.HTTPError", resp.status_code)
         ELSE NoExc
    ELSE IF resp.status_code \notin st.set
         THEN Exc("AttributeError", 0)
         ELSE NoExc

Validate ==
    /\ pc = "status"
    /\ LET ex == StatusCheck(statuses, response)
       IN IF ex = NoExc
          THEN /\ validated' = TRUE
               /\ pc' = "decode"
               /\ UNCHANGED pending
          ELSE /\ pending' = ex
               /\ pc' = "except"
               /\ UNCHANGED validated
    /\ UNCHANGED <<jvars, inputs, ruri, body, sent, response, json, result, raised>>

\* lines 104-107: the except clause that catches ex, in the order written
Handler_RequestExceptionFirst(ex) ==
    IF IsA(ex.cls, "exc.RequestException") THEN "BadResponseError"
    ELSE IF IsA(ex.cls, "exc.HTTPError") THEN "HTTPError"
    ELSE "propagate"

Handler(ex) ==
    IF IsA(ex.cls, "exc.HTTPError") THEN "HTTPError"
    ELSE IF IsA(ex.cls, "exc.RequestException") THEN "BadResponseError"
    ELSE "propagate"

\* line 105: raise HTTPError(code=..., details=...) from ex
WrapStatus_NoReason(ex) == HTTPError(IntV(ex.status), NoneV, ex, 105)

WrapStatus(ex) == HTTPError(IntV(ex.status), TextV(Reason(ex.status)), ex, 105)

ExceptHTTPError ==
    /\ pc = "except"
    /\ Handler(pending) = "HTTPError"
    /\ raised' = WrapStatus(pending)
    /\ pc' = "raised"
    /\ UNCHANGED <<jvars, inputs, ruri, body, sent, response, pending, validated, json, result>>

\* line 107: raise BadResponseError from ex
ExceptRequestException ==
    /\ pc = "except"
    /\ Handler(pending) = "BadResponseError"
    /\ raised' = BadResponseError(NoneV, NoneV, NoJson, pending, 107)
    /\ pc' = "raised"
    /\ UNCHANGED <<jvars, inputs, ruri, body, sent, response, pending, validated, json, result>>

\* no except clause matches: the exception leaves call() as it is
Propagate ==
    /\ pc = "except"
    /\ Handler(pending) = "propagate"
    /\ raised' = Builtin(pending.cls, 103)
    /\ pc' = "raised"
    /\ UNCHANGED <<jvars, inputs, ruri, body, sent, response, pending, validated, json, result>>

\* lines 108-111: response.json(), BadJSONError on a body that is no JSON
Decode ==
    /\ pc = "decode"
    /\ IF response.valid
       THEN /\ json' = response.j
            /\ pc' = "classify"
            /\ UNCHANGED raised
       ELSE /\ raised' = BadJSONError(Exc("ValueError", 0), 111)
            /\ pc' = "raised"
            /\ UNCHANGED json
    /\ UNCHANGED <<jvars, inputs, ruri, body, sent, response, pending, validated, result>>

\* key in j, for a mapping or a list (other values are not iterable)
Contains(j, key) == IF j.t = "map" THEN key \in j.keys ELSE key \in j.items

\* lines 113-118: the error raised for the decoded value j, NoError to return j
Classify(j) ==
    IF j.t \notin {"map", "list"} THEN Builtin("TypeError", 113)
    ELSE IF Contains(j, "errors")
    THEN IF j.t = "list" THEN Builtin("TypeError", 114)
         ELSE IF j.errs.t = "num" THEN Builtin("TypeError", 114)
         ELSE IF j.errs.t = "map" THEN Builtin("KeyError", 114)
         ELSE IF j.errs.n = 0 THEN Builtin("IndexError", 114)
         ELSE IF j.errs.first.t # "map" THEN Builtin("AttributeError", 115)
         ELSE APIError(j.errs.first.code, j.errs.first.details, j, NoExc, 115)
    ELSE IF ~Contains(j, "data")
    THEN BadResponseError(NoneV,
             TextV("Did not receive a data field in a non-error response."), j, NoExc, 117)
    ELSE NoError

ClassifyPayload ==
    /\ pc = "classify"
    /\ LET e == Classify(json)
       IN IF e = NoError
          THEN /\ result' = json
               /\ pc' = "returned"
               /\ UNCHANGED raised
          ELSE /\ raised' = e
               /\ pc' = "raised"
               /\ UNCHANGED result
    /\ UNCHANGED <<jvars, inputs, ruri, body, sent, response, pending, validated, json>>

Next ==
    \/ Resolve
    \/ DispatchAnswered
    \/ DispatchFailed
    \/ Validate
    \/ ExceptHTTPError
    \/ ExceptRequestException
    \/ Propagate
    \/ Decode
    \/ ClassifyPayload

Spec == Init /\ [][Next]_vars

Finished == pc \in {"returned", "raised"}

\* ------------------------------------------------------------ claims: C1
HasDoubleSlash(s) == \E k \in 1..(Len(s) - 1) : s[k] = "/" /\ s[k + 1] = "/"

NonEmpty(fs) == SelectSeq(fs, LAMBDA f : f # <<>>)

\* The junction rule stated on the fragments themselves: fs is a sequence of
\* non-empty fragments, the result is the text for fragments i..Len(fs).
RECURSIVE JunctionJoinFrom(_, _)
JunctionJoinFrom(fs, i) ==
    IF i > Len(fs) THEN <<>>
    ELSE LET p == fs[i - 1]
             q == fs[i]
             pSlash == p[Len(p)] = "/"
             qSlash == q[1] = "/"
             piece == IF pSlash /\ qSlash THEN Tail(q)
                      ELSE IF pSlash \/ qSlash THEN q
                      ELSE <<"/">> \o q
         IN piece \o JunctionJoinFrom(fs, i + 1)

JunctionJoin(fs) == IF fs = <<>> THEN <<>> ELSE fs[1] \o JunctionJoinFrom(fs, 2)

\* C1: urljoin returns the non-empty fragments in order with exactly one '/'
\* at each junction (inserted when neither side has one, untouched when one
\* side has one, one removed when both have one), '' for an empty or all-empty
\* input; and when no fragment contains '//' the result contains no '//'.
C1_ExactlyOneSlash ==
    jpc = "done" =>
        /\ joined.ok
        /\ joined.val = JunctionJoin(NonEmpty(jparts))
        /\ (\A k \in 1..Len(jparts) : ~HasDoubleSlash(jparts[k]))
               => ~HasDoubleSlash(joined.val)

\* ----------------------------------------------------- claims: C2 .. C10
\* the URI the caller means: a str as it is, a sequence f1..fn as urljoin(f1, ..., fn)
MeantUri(u) == IF u.t = "str" THEN u.s ELSE urljoin(StrArgs(u.l)).val

\* C2: a uri that is a sequence of fragments f1..fn reaches the transport as
\* urljoin(f1, ..., fn); a uri that is a plain string reaches it unchanged.
C2_UriResolved ==
    pc # "call" =>
        /\ ~(pc = "raised" /\ raised.at = 92)
        /\ ruri = MeantUri(uri)
        /\ \A k \in 1..Len(sent) : sent[k].uri = MeantUri(uri)

\* C3: with an acceptable-status set S supplied and a response of status s,
\* s outside S raises HTTPError(code = s, details = reason phrase of s), and
\* s inside S passes status validation (4xx/5xx included).
C3_StatusSet ==
    (Finished /\ statuses.given /\ response # NoResponse) =>
        IF response.status_code \notin statuses.set
        THEN /\ pc = "raised"
             /\ raised.cls = "HTTPError"
             /\ raised.code = IntV(response.status_code)
             /\ raised.details = TextV(Reason(response.status_code))
        ELSE validated

C5_PayloadClassified ==
    (Finished /\ json # NoJson) =>
        IF "errors" \in json.keys
        THEN /\ pc = "raised"
             /\ raised.cls = "APIError"
             /\ raised.code = json.errs.first.code
             /\ raised.details = json.errs.first.details
             /\ raised.json = json
        ELSE IF "data" \notin json.keys
        THEN /\ pc = "raised"
             /\ raised.cls = "BadResponseError"
             /\ raised.details =
                    TextV("Did not receive a data field in a non-error response.")
             /\ raised.json = json
        ELSE /\ pc = "returned"
             /\ result = json
             /\ "data" \in result.keys
             /\ "errors" \notin result.keys

\* C6: every call ends by returning the decoded JSON mapping or by raising an
\* error of the APIError hierarchy; no other exception escapes.
C6_OnlyTypedErrors ==
    /\ pc = "raised" => IsA(raised.cls, "APIError")
    /\ pc = "returned" => result.t = "map"

\* C7: the transport options given to call reach the transport unchanged, on
\* the verb-specific and on the generic path.
C7_OptionsPassedThrough == \A k \in 1..Len(sent) : sent[k].options = kwargs

\* C8: when status validation passed and the body is no valid JSON, call
\* raises BadJSONError with code '2608' and the fixed details, chained to the
\* decoding failure; it is a BadResponseError, and nothing is classified.
C8_BadJSON ==
    (validated /\ ~response.valid) =>
        /\ json = NoJson
        /\ pc \in {"decode", "raised"}
        /\ Finished =>
              /\ raised = Error("BadJSONError", TextV("2608"),
                                TextV("API didn't return valid JSON."), NoJson,
                                Exc("ValueError", 0), 111)
              /\ IsA(raised.cls, "BadResponseError")

C8_Witness ==
    /\ pc = "raised"
    /\ validated
    /\ ~response.valid
    /\ statuses.given
    /\ response.status_code = 404
    /\ raised.cls = "BadJSONError"

\* C9: for every method string m, call issues exactly one transport request,
\* carrying the verb upper(m), the resolved URI and the JSON body (data, or an
\* empty mapping); the verb-specific path is taken exactly for GET, PUT, POST.
C9_OneRequestSameVerb ==
    Finished =>
        /\ Len(sent) = 1
        /\ sent[1].verb = Upper(method)
        /\ sent[1].uri = MeantUri(uri)
        /\ sent[1].json = (IF data = "{k: v}" THEN "{k: v}" ELSE "{}")
        /\ (sent[1].via \in {GET, PUT, POST}) <=> (method \in {GET, PUT, POST})

====
